---- MODULE Spec2Model ----
(***************************************************************************)
(* Model of the powerdns_record Ansible module (src/powerdns_record.py):   *)
(* one recordset (name, type) of a zone held by a PowerDNS server, and     *)
(* invocations of main()/ensure() that read it, decide, and issue at most  *)
(* one PATCH (REPLACE or DELETE) followed by a re-read.                    *)
(*                                                                         *)
(* A content string is a sequence of one-character strings, so that the    *)
(* string handling of the code (lower, strip, split, join) is computed.    *)
(***************************************************************************)
EXTENDS Integers, Sequences, FiniteSets, TLC

VARIABLES rtype, remote, params, check_mode, pc, record, request, calls,
          changed, result, failure, repeat,
          upstream,   \* the PowerDNSError the failed API call raised
          reported,   \* the status code and message fail_json is given
          remote0,    \* the recordset before the first run
          predicted,  \* changed, as the preceding check-mode run reported it
          w2,         \* a second run of the module, on the same recordset
          fin, fout, fpc  \* a function of the module applied on its own

\* What the runs of a single caller leave alone.
aux == <<remote0, predicted, w2, fin, fout, fpc>>

vars == <<rtype, remote, params, check_mode, pc, record, request, calls,
          changed, result, failure, repeat, upstream, reported, aux>>

\* Longest content list a caller passes, longest recordset the server holds
\* at the start.
MaxContent == 2
MaxExisting == 2

\* record.get('ttl', None): the value read when the rrset carries no ttl.
NoTTL == -1

Q == "\""

Str1(a) == <<a>>
SOAStr(s, x) == <<"n", " ", "h", " ", s, " ", x>>

\* The record types modelled: one without special handling, and the three
\* the code treats specially.
RTypes == {"A", "AAAA", "TXT", "SOA"}

\* Content strings a caller may pass, by record type.
DesiredItems(rt) ==
    CASE rt = "A"    -> {Str1("1"), Str1("2"), Str1("3")}
      [] rt = "AAAA" -> {Str1("a"), Str1("A"), Str1("b")}
      [] rt = "TXT"  -> {Str1("h"), <<Q, "h", Q>>, Str1("g")}
      [] rt = "SOA"  -> {SOAStr("0", "x"), SOAStr("9", "x"), <<"n", " ", "h">>}

\* Content strings the server may hold at the start, by record type.
StoredItems(rt) ==
    CASE rt = "A"    -> {Str1("1"), Str1("2"), Str1("3")}
      [] rt = "AAAA" -> {Str1("a"), Str1("b")}
      [] rt = "TXT"  -> {<<Q, "h", Q>>, <<Q, "g", Q>>}
      [] rt = "SOA"  -> {SOAStr("9", "x"), SOAStr("7", "x"), SOAStr("7", "y")}

TTLs == {300, 86400}

SeqsUpTo(S, n) == UNION {[1..k -> S] : k \in 0..n}

Range(s) == {s[i] : i \in 1..Len(s)}

Min(a, b) == IF a < b THEN a ELSE b

\* All the orders in which the elements of a set can be listed once each.
Orderings(S) == {s \in [1..Cardinality(S) -> S] : Range(s) = S}

(***************************************************************************)
(* String functions of Python the code uses.                               *)
(***************************************************************************)
LowerChar(c) == CASE c = "A" -> "a" [] c = "B" -> "b" [] OTHER -> c

Lower(s) == [i \in 1..Len(s) |-> LowerChar(s[i])]

StartsWithQuote(s) == Len(s) > 0 /\ s[1] = Q

EndsWithQuote(s) == Len(s) > 0 /\ s[Len(s)] = Q

RECURSIVE LStripQuotes(_)
LStripQuotes(s) == IF StartsWithQuote(s) THEN LStripQuotes(Tail(s)) ELSE s

RECURSIVE RStripQuotes(_)
RStripQuotes(s) ==
    IF EndsWithQuote(s) THEN RStripQuotes(SubSeq(s, 1, Len(s) - 1)) ELSE s

StripQuotes(s) == RStripQuotes(LStripQuotes(s))

RECURSIVE Split(_)
Split(s) ==
    IF \A i \in 1..Len(s) : s[i] # " "
    THEN <<s>>
    ELSE LET k == CHOOSE i \in 1..Len(s) :
                    s[i] = " " /\ \A j \in 1..(i - 1) : s[j] # " "
         IN <<SubSeq(s, 1, k - 1)>> \o Split(SubSeq(s, k + 1, Len(s)))

RECURSIVE Join(_)
Join(parts) ==
    IF Len(parts) = 0 THEN <<>>
    ELSE IF Len(parts) = 1 THEN parts[1]
    ELSE parts[1] \o <<" ">> \o Join(Tail(parts))

(***************************************************************************)
(* Content comparison.                                                     *)
(***************************************************************************)
\* content.split(' ')[2] raises IndexError on fewer than three fields.
SerialRaises(content) == Len(Split(content)) < 3

serial(content) == Split(content)[3]

\* ignore_serial, were the serial left in.
ignore_serial_Keep(content) == content

ignore_serial(content) ==
    LET parts == Split(content)
    IN Join(SubSeq(parts, 1, Min(2, Len(parts))) \o SubSeq(parts, 4, Len(parts)))

matches_existing_content(rt, content, existing_content) ==
    IF rt = "SOA" /\ serial(content) = Str1("0")
    THEN \E i \in 1..Len(existing_content) :
            ignore_serial(existing_content[i]) = ignore_serial(content)
    ELSE \E i \in 1..Len(existing_content) : existing_content[i] = content

(***************************************************************************)
(* The server side: one rrset of the zone, and the PATCH that changes it.  *)
(***************************************************************************)
\* dict(records=[], comments=[]): what get_record yields when no rrset of
\* the name and type is in the zone.
EmptyRRset == [records |-> <<>>, ttl |-> NoTTL]

get_record(zone_rrset) ==
    IF Len(zone_rrset.records) = 0
    THEN EmptyRRset
    ELSE [records |-> zone_rrset.records, ttl |-> zone_rrset.ttl]

GetCall == [changetype |-> "GET", records |-> <<>>, ttl |-> NoTTL]

NoRequest == [changetype |-> "NONE", records |-> <<>>, ttl |-> NoTTL]

_get_request_data(changetype, rt, set_ptr, content, disabled, ttl) ==
    [changetype |-> changetype,
     records |-> [i \in 1..Len(content) |->
                    [content |-> content[i],
                     disabled |-> disabled,
                     set_ptr |-> (rt \in {"A", "AAAA"} /\ set_ptr)]],
     ttl |-> ttl]

create_record(rt, content, disabled, ttl, set_ptr) ==
    _get_request_data("REPLACE", rt, set_ptr, content, disabled, ttl)

\* DELETE carries no content, so no records, and ttl=None.
delete_record(rt) == _get_request_data("DELETE", rt, FALSE, <<>>, FALSE, NoTTL)

\* What the server stores after a successful PATCH of the rrset: DELETE, and
\* REPLACE with no records, remove it; REPLACE with records stores them.
ApplyPatch(zone_rrset, data) ==
    IF data.changetype = "DELETE" \/ Len(data.records) = 0
    THEN EmptyRRset
    ELSE [records |-> [i \in 1..Len(data.records) |->
                          [content |-> data.records[i].content,
                           disabled |-> data.records[i].disabled]],
          ttl |-> data.ttl]

(***************************************************************************)
(* ensure(): the decision taken after the read.                            *)
(***************************************************************************)
ExistingContent(rec) == [i \in 1..Len(rec.records) |-> rec.records[i].content]

QuoteTXT(item) ==
    IF StartsWithQuote(item) /\ EndsWithQuote(item)
    THEN item
    ELSE <<Q>> \o StripQuotes(item) \o <<Q>>

\* Sanitize without lines 305-315: the content is passed on as given.
Sanitize_Verbatim(rt, content) == content

Sanitize(rt, content) ==
    IF Len(content) = 0 THEN content
    ELSE IF rt = "AAAA" THEN [i \in 1..Len(content) |-> Lower(content[i])]
    ELSE IF rt = "TXT" THEN [i \in 1..Len(content) |-> QuoteTXT(content[i])]
    ELSE content

\* The loop of lines 334-337: the desired items to add to the payload.
ChangedItems(rt, content, existing_content, record_ttl, ttl) ==
    SelectSeq(content,
              LAMBDA item : ~matches_existing_content(rt, item, existing_content)
                            \/ record_ttl # ttl)

\* ExclusivePrune without the pruning of line 341.
ExclusivePrune_NoPrune(record_content, content, existing_content, exclusive) ==
    record_content

\* Lines 340-341.
ExclusivePrune(record_content, content, existing_content, exclusive) ==
    IF Cardinality(Range(existing_content)) > Cardinality(Range(content))
       /\ exclusive
    THEN content
    ELSE record_content

\* PayloadContents, were the existing content kept with exclusive too.
PayloadContents_Merge(record_content, content, existing_content, exclusive) ==
    LET S == Range(record_content \o content)
    IN {existing_content \o o :
           o \in Orderings({item \in S : item \notin Range(existing_content)})}

\* Lines 346-349: the content lists the payload can be; the order in which a
\* Python set is listed is not fixed.
PayloadContents(record_content, content, existing_content, exclusive) ==
    LET S == Range(record_content \o content)
    IN IF exclusive
       THEN Orderings(S)
       ELSE {existing_content \o o :
                o \in Orderings({item \in S : item \notin Range(existing_content)})}

\* AbsentRemainder with the test of line 373 inverted.
AbsentRemainder_KeepListed(existing_content, content) ==
    SelectSeq(existing_content, LAMBDA item : item \in Range(content))

\* Line 373.
AbsentRemainder(existing_content, content) ==
    SelectSeq(existing_content, LAMBDA item : item \notin Range(content))

\* The message of the try block a failing API call is reported with.
TryMessage(p, rec) ==
    IF p.state = "present"
    THEN IF Len(rec.records) = 0
         THEN "Could not create record"
         ELSE "Could not update record"
    ELSE "Could not delete record"

\* The outcomes of the decision: an exception main() reports, the return at
\* line 393, or one of the mutating calls.
Raise(exc) == [kind |-> "raise", content |-> <<>>, exc |-> exc]
NoOp == [kind |-> "noop", content |-> <<>>, exc |-> ""]
Replace(content) == [kind |-> "replace", content |-> content, exc |-> ""]
Delete == [kind |-> "delete", content |-> <<>>, exc |-> ""]

\* main(), line 435: the message of an exception that leaves ensure().
ErrorMessage(exc) ==
    CASE exc = "TypeError" -> "Error: TypeError"
      [] exc = "IndexError" -> "Error: IndexError"
      [] OTHER -> "Error: PowerDNSError"

PresentDecisions(rt, p, content, existing_content, record_ttl) ==
    IF Len(existing_content) = 0
    THEN {Replace(content)}
    ELSE IF ~p.hasContent
    THEN {Raise("TypeError")}       \* for item in None
    ELSE IF rt = "SOA" /\ \E i \in 1..Len(content) : SerialRaises(content[i])
    THEN {Raise("IndexError")}      \* serial(): parts[2]
    ELSE LET record_content ==
                ExclusivePrune(
                    ChangedItems(rt, content, existing_content, record_ttl, p.ttl),
                    content, existing_content, p.exclusive)
         IN IF Len(record_content) > 0
            THEN {Replace(c) :
                    c \in PayloadContents(record_content, content,
                                          existing_content, p.exclusive)}
            ELSE {NoOp}

\* AbsentDecisions without the branch of lines 361-370: exclusive is not
\* looked at.
AbsentDecisions_IgnoreExclusive(p, content, existing_content) ==
    IF Len(existing_content) > 0
    THEN IF ~p.hasContent
         THEN {Raise("TypeError")}
         ELSE LET record_content == AbsentRemainder(existing_content, content)
              IN IF Len(record_content) # Len(existing_content)
                 THEN {Replace(record_content)}
                 ELSE {NoOp}
    ELSE {NoOp}

AbsentDecisions(p, content, existing_content) ==
    IF Len(existing_content) > 0 /\ p.exclusive
    THEN {Delete}
    ELSE IF Len(existing_content) > 0
    THEN IF ~p.hasContent
         THEN {Raise("TypeError")}  \* item not in None
         ELSE LET record_content == AbsentRemainder(existing_content, content)
              IN IF Len(record_content) # Len(existing_content)
                 THEN {Replace(record_content)}
                 ELSE {NoOp}
    ELSE {NoOp}

\* Decisions, were a present run to rewrite a recordset that holds an entry
\* whose disabled flag is not the one asked for.
Decisions_FlagAware(rt, p, rec) ==
    LET content == Sanitize(rt, p.content)
        existing_content == ExistingContent(rec)
    IN IF p.state = "present"
       THEN IF \E i \in 1..Len(rec.records) : rec.records[i].disabled # p.disabled
            THEN {Replace(content)}
            ELSE PresentDecisions(rt, p, content, existing_content, rec.ttl)
       ELSE AbsentDecisions(p, content, existing_content)

Decisions(rt, p, rec) ==
    LET content == Sanitize(rt, p.content)
        existing_content == ExistingContent(rec)
    IN IF p.state = "present"
       THEN PresentDecisions(rt, p, content, existing_content, rec.ttl)
       ELSE AbsentDecisions(p, content, existing_content)

\* SkipMutation with the test of check_mode left out.
SkipMutation_Never(cm) == FALSE

\* if not module.check_mode: the mutating call is skipped in check mode.
SkipMutation(cm) == cm

(***************************************************************************)
(* State machine.                                                          *)
(***************************************************************************)
\* _handle_request, lines 150-157: the errors a response other than 200,
\* 201, 204 is raised as.
UpstreamErrors ==
    {[status_code |-> 404, message |-> "Not found"],
     [status_code |-> 422, message |-> "Unprocessable"]}

NoError == [status_code |-> 0, message |-> ""]

\* The code and err of the fail_json messages (lines 331, 358, 369) and of
\* str(e) in main (line 435).
NoReport == [code |-> 0, err |-> ""]
Report(e) == [code |-> e.status_code, err |-> e.message]

\* The second run, not started.
W2Off == [pc |-> "off", params |-> <<>>, record |-> EmptyRRset,
          request |-> NoRequest]

\* module.params; content=None is hasContent = FALSE.
Params(rt) ==
    {[content |-> c, hasContent |-> TRUE, ttl |-> t, disabled |-> d,
      exclusive |-> e, set_ptr |-> sp, state |-> st] :
        c \in SeqsUpTo(DesiredItems(rt), MaxContent), t \in TTLs,
        d \in BOOLEAN, e \in BOOLEAN, sp \in BOOLEAN,
        st \in {"present", "absent"}}
    \cup
    {[content |-> <<>>, hasContent |-> FALSE, ttl |-> t, disabled |-> d,
      exclusive |-> e, set_ptr |-> sp, state |-> st] :
        t \in TTLs, d \in BOOLEAN, e \in BOOLEAN, sp \in BOOLEAN,
        st \in {"present", "absent"}}

DefaultParams ==
    [content |-> <<>>, hasContent |-> FALSE, ttl |-> 86400, disabled |-> FALSE,
     exclusive |-> TRUE, set_ptr |-> FALSE, state |-> "present"]

NilResult == [nil |-> TRUE, rrset |-> EmptyRRset]
RecordResult(rec) == [nil |-> FALSE, rrset |-> rec]

InitialRRsets(rt) ==
    {EmptyRRset} \cup
    {[records |-> [i \in 1..Len(c) |-> [content |-> c[i], disabled |-> d]],
      ttl |-> t] :
        c \in SeqsUpTo(StoredItems(rt), MaxExisting) \ {<<>>},
        d \in BOOLEAN, t \in TTLs}

\* The variables that only the specifications of single functions, of a
\* check-mode run followed by the real one, and of two runs use.
AuxOff ==
    /\ predicted = "none"
    /\ w2 = W2Off
    /\ fin = <<>>
    /\ fout = <<>>
    /\ fpc = "off"

Init ==
    /\ rtype \in RTypes
    /\ remote \in InitialRRsets(rtype)
    /\ remote0 = remote
    /\ upstream = NoError
    /\ reported = NoReport
    /\ AuxOff
    /\ params = DefaultParams
    /\ check_mode = FALSE
    /\ pc = "idle"
    /\ record = EmptyRRset
    /\ request = NoRequest
    /\ calls = <<>>
    /\ changed = FALSE
    /\ result = NilResult
    /\ failure = ""
    /\ repeat = FALSE

\* main(): a run of the module, with the parameters the caller gives.
Invoke ==
    /\ pc = "idle"
    /\ \E p \in Params(rtype), cm \in BOOLEAN :
          /\ params' = p
          /\ check_mode' = cm
    /\ repeat' = FALSE
    /\ pc' = "read"
    /\ record' = EmptyRRset
    /\ request' = NoRequest
    /\ calls' = <<>>
    /\ changed' = FALSE
    /\ result' = NilResult
    /\ failure' = ""
    /\ UNCHANGED <<rtype, remote, upstream, reported, aux>>

\* main() again: the caller runs the same task, with the same parameters,
\* right after a run that succeeded outside check mode.
Reinvoke ==
    /\ pc = "done"
    /\ failure = ""
    /\ ~check_mode
    /\ repeat' = TRUE
    /\ pc' = "read"
    /\ record' = EmptyRRset
    /\ request' = NoRequest
    /\ calls' = <<>>
    /\ changed' = FALSE
    /\ result' = NilResult
    /\ UNCHANGED <<rtype, remote, params, check_mode, failure, upstream,
                   reported, aux>>

\* Line 298 and the decision of lines 299-393 up to the mutating call.
Read ==
    /\ pc = "read"
    /\ calls' = Append(calls, GetCall)
    /\ LET rec == get_record(remote)
       IN /\ record' = rec
          /\ \E d \in Decisions(rtype, params, rec) :
                CASE d.kind = "raise" ->
                        /\ failure' = ErrorMessage(d.exc)
                        /\ reported' = [code |-> 0, err |-> d.exc]
                        /\ pc' = "done"
                        /\ UNCHANGED <<request, changed, result>>
                  [] d.kind = "noop" ->
                        /\ pc' = "done"
                        /\ changed' = FALSE
                        /\ result' = RecordResult(rec)
                        /\ UNCHANGED <<request, failure, reported>>
                  [] d.kind = "replace" ->
                        /\ request' = create_record(rtype, d.content,
                                                    params.disabled, params.ttl,
                                                    params.set_ptr)
                        /\ pc' = IF SkipMutation(check_mode)
                                 THEN "reread" ELSE "mutate"
                        /\ UNCHANGED <<changed, result, failure, reported>>
                  [] d.kind = "delete" ->
                        /\ request' = delete_record(rtype)
                        /\ IF SkipMutation(check_mode)
                           THEN /\ pc' = "done"
                                /\ changed' = TRUE
                                /\ result' = NilResult
                           ELSE /\ pc' = "mutate"
                                /\ UNCHANGED <<changed, result>>
                        /\ UNCHANGED <<failure, reported>>
    /\ UNCHANGED <<rtype, remote, params, check_mode, repeat, upstream, aux>>

\* The read fails: PowerDNSError leaves ensure() and main() reports it.
ReadFails ==
    /\ pc = "read"
    /\ calls' = Append(calls, GetCall)
    /\ failure' = ErrorMessage("PowerDNSError")
    /\ \E e \in UpstreamErrors : upstream' = e /\ reported' = Report(e)
    /\ pc' = "done"
    /\ UNCHANGED <<rtype, remote, params, check_mode, record, request, changed,
                   result, repeat, aux>>

\* The PATCH of create_record / delete_record succeeds.
Mutate ==
    /\ pc = "mutate"
    /\ calls' = Append(calls, request)
    /\ remote' = ApplyPatch(remote, request)
    /\ IF request.changetype = "DELETE"
       THEN /\ pc' = "done"
            /\ changed' = TRUE
            /\ result' = NilResult
       ELSE /\ pc' = "reread"
            /\ UNCHANGED <<changed, result>>
    /\ UNCHANGED <<rtype, params, check_mode, record, request, failure, repeat,
                   upstream, reported, aux>>

\* MutateFails, were a REPLACE that failed followed by a DELETE.
MutateFails_FallbackDelete ==
    /\ pc = "mutate"
    /\ calls' = Append(calls, request)
    /\ failure' = TryMessage(params, record)
    /\ \E e \in UpstreamErrors : upstream' = e /\ reported' = Report(e)
    /\ request' = delete_record(rtype)
    /\ pc' = IF request.changetype = "REPLACE" THEN "mutate" ELSE "done"
    /\ UNCHANGED <<rtype, remote, params, check_mode, record, changed, result,
                   repeat, aux>>

\* The PATCH fails: the server changes nothing, fail_json ends the run.
MutateFails ==
    /\ pc = "mutate"
    /\ calls' = Append(calls, request)
    /\ failure' = TryMessage(params, record)
    /\ \E e \in UpstreamErrors : upstream' = e /\ reported' = Report(e)
    /\ pc' = "done"
    /\ UNCHANGED <<rtype, remote, params, check_mode, record, request, changed,
                   result, repeat, aux>>

\* ReRead, were a check-mode run to report what it did, not what it would do.
ReRead_ReportsDone ==
    /\ pc = "reread"
    /\ calls' = Append(calls, GetCall)
    /\ changed' = ~check_mode
    /\ result' = RecordResult(get_record(remote))
    /\ pc' = "done"
    /\ UNCHANGED <<rtype, remote, params, check_mode, record, request, failure,
                   repeat, upstream, reported, aux>>

\* ReRead without the call: the snapshot of the first read is returned.
ReRead_Stale ==
    /\ pc = "reread"
    /\ changed' = TRUE
    /\ result' = RecordResult(record)
    /\ pc' = "done"
    /\ UNCHANGED <<rtype, remote, params, check_mode, record, request, calls,
                   failure, repeat, upstream, reported, aux>>

\* return True, pdns_client.get_record(...)
ReRead ==
    /\ pc = "reread"
    /\ calls' = Append(calls, GetCall)
    /\ changed' = TRUE
    /\ result' = RecordResult(get_record(remote))
    /\ pc' = "done"
    /\ UNCHANGED <<rtype, remote, params, check_mode, record, request, failure,
                   repeat, upstream, reported, aux>>

ReReadFails ==
    /\ pc = "reread"
    /\ calls' = Append(calls, GetCall)
    /\ failure' = TryMessage(params, record)
    /\ \E e \in UpstreamErrors : upstream' = e /\ reported' = Report(e)
    /\ pc' = "done"
    /\ UNCHANGED <<rtype, remote, params, check_mode, record, request, changed,
                   result, repeat, aux>>

Next ==
    \/ Invoke
    \/ Reinvoke
    \/ Read
    \/ ReadFails
    \/ Mutate
    \/ MutateFails
    \/ ReRead
    \/ ReReadFails

Spec == Init /\ [][Next]_vars

(***************************************************************************)
(* Vocabulary of the properties.                                           *)
(***************************************************************************)
\* The run has ended and reported changed and record.
Succeeded == pc = "done" /\ failure = ""

IsMutating(call) == call.changetype \in {"REPLACE", "DELETE"}

MutatingCalls == SelectSeq(calls, IsMutating)

CallContent(call) == [i \in 1..Len(call.records) |-> call.records[i].content]

\* The content the run read, and the content asked for, sanitized.
Existing == ExistingContent(record)
Desired == Sanitize(rtype, params.content)

Count(s, x) == Cardinality({i \in 1..Len(s) : s[i] = x})

\* An API call of the run failed (read, PATCH or re-read).
ApiFailed ==
    failure \in {"Error: PowerDNSError", "Could not create record",
                 "Could not update record", "Could not delete record"}

\* The run has ended, outside check mode, with a content list given and no
\* API call failing.
Ended == pc = "done" /\ ~check_mode /\ params.hasContent /\ ~ApiFailed

\* A REPLACE was the one mutating call, and it carried the desired ttl.
OneReplace ==
    /\ Len(MutatingCalls) = 1
    /\ MutatingCalls[1].changetype = "REPLACE"
    /\ MutatingCalls[1].ttl = params.ttl

\* For SOA, no desired entry is compared up to its serial or is malformed.
SOAExact ==
    rtype = "SOA" =>
        \A i \in 1..Len(Desired) :
            ~SerialRaises(Desired[i]) /\ serial(Desired[i]) # Str1("0")

(***************************************************************************)
(* C1. Idempotence: a run that follows, with the same parameters, a run    *)
(* that succeeded (neither in check mode, no API call failing, nobody else *)
(* writing in between) reports changed=false and issues no mutating call.  *)
(* The code breaks it: see C1_Idempotent under Spec.                       *)
(***************************************************************************)
C1_Idempotent ==
    (Succeeded /\ repeat /\ params.hasContent) =>
        (changed = FALSE /\ Len(MutatingCalls) = 0)

\* For SOA, every desired entry has the three fields serial() needs.
WellFormed ==
    rtype = "SOA" => \A i \in 1..Len(Desired) : ~SerialRaises(Desired[i])

\* The two outcomes of a present run on an existing recordset, and the
\* exclusive present run on a non-empty, well-formed desired content.
ExclusiveRewrite ==
    /\ failure = ""
    /\ OneReplace
    /\ Range(CallContent(MutatingCalls[1])) = Range(Desired)
    /\ Len(MutatingCalls[1].records) = Cardinality(Range(Desired))
    /\ changed = TRUE

LeftAlone ==
    /\ failure = ""
    /\ Len(MutatingCalls) = 0
    /\ changed = FALSE
    /\ result = RecordResult(record)

ExclusivePresentCase ==
    /\ Ended
    /\ params.state = "present"
    /\ params.exclusive
    /\ Len(Existing) > 0
    /\ Len(Desired) > 0
    /\ WellFormed

(***************************************************************************)
(* C2. Exclusive convergence, as claimed: with state=present,              *)
(* exclusive=true and an existing recordset, if the existing content set   *)
(* differs from the desired content set or the TTL differs, the desired    *)
(* content, deduplicated, is submitted as the replacement with the desired *)
(* TTL and changed=true; otherwise there is no mutating call and the       *)
(* result is changed=false with the snapshot read. Stated here for a       *)
(* non-empty, well-formed desired content.                                 *)
(***************************************************************************)
C2_Original ==
    ExclusivePresentCase =>
        IF Range(Existing) # Range(Desired) \/ record.ttl # params.ttl
        THEN ExclusiveRewrite
        ELSE LeftAlone

\* What makes the code rewrite an existing recordset under exclusive=true.
ExclusiveOutOfSync ==
    \/ \E i \in 1..Len(Desired) :
          ~matches_existing_content(rtype, Desired[i], Existing)
    \/ Cardinality(Range(Existing)) > Cardinality(Range(Desired))
    \/ record.ttl # params.ttl

\* C2 as amended: for a non-empty, well-formed desired content, the
\* replacement is submitted if some desired entry matches no existing entry
\* per contentMatches (an SOA entry with serial 0 matches up to the serial),
\* or the existing content has more distinct entries than the desired
\* content, or the TTL differs; otherwise the recordset is left alone. When
\* no desired entry is an SOA entry with serial 0, that is the claim's
\* condition: the two content sets differ or the TTL differs.
C2_ExclusiveConvergence ==
    ExclusivePresentCase =>
        /\ IF ExclusiveOutOfSync THEN ExclusiveRewrite ELSE LeftAlone
        /\ SOAExact =>
              (ExclusiveOutOfSync <=>
                 (Range(Existing) # Range(Desired) \/ record.ttl # params.ttl))

\* C2 witness: a run pruned the stored entries that were not asked for (the
\* desired set a proper subset of the stored set, the TTL the same).
C2_Witness ==
    /\ ExclusivePresentCase
    /\ Succeeded /\ changed
    /\ Range(Desired) \subseteq Range(Existing)
    /\ Range(Desired) # Range(Existing)
    /\ record.ttl = params.ttl
    /\ Range(ExistingContent(remote)) = Range(Desired)

\* The non-exclusive present run on an existing recordset, and the desired
\* entries that match no existing entry.
NonExclusivePresentCase ==
    /\ Ended
    /\ params.state = "present"
    /\ ~params.exclusive
    /\ Len(Existing) > 0
    /\ Len(Desired) > 0
    /\ WellFormed

ToAdd ==
    {Desired[i] : i \in {j \in 1..Len(Desired) :
                    ~matches_existing_content(rtype, Desired[j], Existing)}}

(***************************************************************************)
(* C3. Non-exclusive merge: with state=present, exclusive=false and an     *)
(* existing recordset, the submitted content is the existing content plus  *)
(* exactly the desired entries that match no existing entry per            *)
(* contentMatches; a TTL mismatch alone forces the rewrite with that       *)
(* union; with nothing to add and the TTL matching, there is no mutating   *)
(* call and changed=false. Stated for a non-empty, well-formed desired     *)
(* content. The code breaks it: see C3_NonExclusiveMerge under Spec.       *)
(***************************************************************************)
C3_NonExclusiveMerge ==
    NonExclusivePresentCase =>
        IF ToAdd # {} \/ record.ttl # params.ttl
        THEN /\ failure = ""
             /\ OneReplace
             /\ changed = TRUE
             /\ LET sent == CallContent(MutatingCalls[1])
                IN \A x \in Range(sent) \cup Range(Existing) \cup ToAdd :
                      Count(sent, x) =
                         Count(Existing, x) + (IF x \in ToAdd THEN 1 ELSE 0)
        ELSE LeftAlone

\* The non-exclusive absent run on an existing recordset, and the existing
\* content without the listed entries.
AbsentNonExclusiveCase ==
    /\ Ended
    /\ params.state = "absent"
    /\ ~params.exclusive
    /\ Len(Existing) > 0

IsRemainder(sent) ==
    /\ Range(sent) \subseteq Range(Existing)
    /\ \A x \in Range(Existing) :
          Count(sent, x) = IF x \in Range(Desired) THEN 0 ELSE Count(Existing, x)

(***************************************************************************)
(* C4. Absent, non-exclusive, partial removal: with state=absent,          *)
(* exclusive=false and an existing recordset, when some but not all of the *)
(* existing entries are listed in the desired content, the recordset is    *)
(* rewritten with the existing entries that are not listed (each as often  *)
(* as it was stored) and changed=true; when no existing entry is listed,   *)
(* there is no mutating call and changed=false.                            *)
(***************************************************************************)
C4_PartialRemoval ==
    AbsentNonExclusiveCase =>
        /\ (Range(Existing) \cap Range(Desired) = {}) => LeftAlone
        /\ (/\ Range(Existing) \cap Range(Desired) # {}
            /\ ~(Range(Existing) \subseteq Range(Desired)))
           => /\ failure = ""
              /\ OneReplace
              /\ IsRemainder(CallContent(MutatingCalls[1]))
              /\ Len(MutatingCalls[1].records) > 0
              /\ changed = TRUE

\* C4 witness: a run removed a listed entry and left another one stored.
C4_Witness ==
    /\ AbsentNonExclusiveCase
    /\ Succeeded /\ changed
    /\ Len(remote.records) > 0
    /\ Len(remote.records) < Len(Existing)
    /\ Range(ExistingContent(remote)) \cap Range(Desired) = {}

(***************************************************************************)
(* C5. Absent, non-exclusive, nothing left: when every existing entry is   *)
(* listed in the desired content, the recordset is deleted by the delete   *)
(* operation, the result is changed=true with no record, and no REPLACE    *)
(* with an empty content list is sent. The code breaks it: see             *)
(* C5_DeleteWhenEmptied under Spec.                                        *)
(***************************************************************************)
C5_DeleteWhenEmptied ==
    (AbsentNonExclusiveCase /\ Range(Existing) \subseteq Range(Desired)) =>
        /\ failure = ""
        /\ Len(MutatingCalls) = 1
        /\ MutatingCalls[1].changetype = "DELETE"
        /\ changed = TRUE
        /\ result = NilResult

\* The exclusive absent run.
AbsentExclusiveCase ==
    /\ pc = "done" /\ ~check_mode /\ ~ApiFailed
    /\ params.state = "absent"
    /\ params.exclusive

(***************************************************************************)
(* C6. Absent, exclusive: if the recordset exists, exactly one DELETE of   *)
(* the whole recordset is issued, whatever the desired content is, and the *)
(* result is changed=true with no record; if it does not exist, there is   *)
(* no mutating call and changed=false.                                     *)
(***************************************************************************)
C6_AbsentExclusiveDelete ==
    AbsentExclusiveCase =>
        /\ failure = ""
        /\ IF Len(Existing) > 0
           THEN /\ Len(MutatingCalls) = 1
                /\ MutatingCalls[1].changetype = "DELETE"
                /\ Len(MutatingCalls[1].records) = 0
                /\ changed = TRUE
                /\ result = NilResult
                /\ Len(remote.records) = 0
           ELSE /\ Len(MutatingCalls) = 0
                /\ changed = FALSE

\* C6 witness: a recordset of two entries was deleted by a run that listed
\* only one of them.
C6_Witness ==
    /\ AbsentExclusiveCase
    /\ Succeeded /\ changed
    /\ Len(Desired) = 1
    /\ Cardinality(Range(Existing)) = 2
    /\ Len(remote.records) = 0

\* The present run that finds no recordset.
CreateCase ==
    /\ pc = "done" /\ ~check_mode /\ ~ApiFailed
    /\ params.state = "present"
    /\ Len(Existing) = 0

C8_RejectedBeforeAnyCall ==
    (/\ pc # "idle"
     /\ params.state = "present"
     /\ params.exclusive
     /\ Len(params.content) = 0)
    => /\ Len(calls) = 0
       /\ pc = "done" => failure # ""

(***************************************************************************)
(* C9. Check mode never mutates: in a check-mode run no REPLACE and no     *)
(* DELETE is issued and the stored recordset does not change, while the    *)
(* run still starts with the read.                                         *)
(***************************************************************************)
C9_CheckModeNeverMutates ==
    /\ [](check_mode =>
            /\ Len(MutatingCalls) = 0
            /\ pc = "done" => (Len(calls) >= 1 /\ calls[1] = GetCall))
    /\ [][check_mode => remote' = remote]_vars

\* C9 witness: a check-mode run ended reporting a change it did not make.
C9_Witness ==
    /\ check_mode
    /\ Succeeded /\ changed
    /\ request.changetype = "REPLACE"
    /\ ApplyPatch(remote, request) # remote
    /\ remote = record

\* The kinds of the calls the run has issued, in order.
CallKinds == [i \in 1..Len(calls) |-> calls[i].changetype]

(***************************************************************************)
(* C10. Call sequence of one run: the read first, then at most one         *)
(* mutating call; a REPLACE that succeeded is followed by exactly one      *)
(* re-read, whose value is the record returned; after a DELETE nothing is  *)
(* read and no record is returned; there is never a second mutating call.  *)
(***************************************************************************)
C10_CallSequence ==
    /\ CallKinds \in {<<>>, <<"GET">>, <<"GET", "GET">>,
                      <<"GET", "REPLACE">>, <<"GET", "REPLACE", "GET">>,
                      <<"GET", "DELETE">>}
    /\ Succeeded =>
          /\ CallKinds \in {<<"GET">>, <<"GET", "GET">>,
                            <<"GET", "REPLACE", "GET">>, <<"GET", "DELETE">>}
          /\ Len(calls) = 3 => result = RecordResult(get_record(remote))
          /\ (Len(MutatingCalls) = 1 /\ MutatingCalls[1].changetype = "DELETE")
                => result = NilResult

\* C10 witness: a run read, replaced, and returned the record read again,
\* which is not the one it read first.
C10_Witness ==
    /\ Succeeded
    /\ CallKinds = <<"GET", "REPLACE", "GET">>
    /\ result = RecordResult(get_record(remote))
    /\ result.rrset # record

(***************************************************************************)
(* The caller that runs the task again when an API call failed.            *)
(***************************************************************************)
\* The run that failed is started again with the same parameters.  The
\* PATCH of the failed run was applied when it is the read after it that
\* failed.
Retry ==
    /\ pc = "done"
    /\ upstream # NoError
    /\ ~check_mode
    /\ repeat' = (repeat \/ Len(calls) = 3)
    /\ pc' = "read"
    /\ record' = EmptyRRset
    /\ request' = NoRequest
    /\ calls' = <<>>
    /\ changed' = FALSE
    /\ result' = NilResult
    /\ failure' = ""
    /\ upstream' = NoError
    /\ reported' = NoReport
    /\ UNCHANGED <<rtype, remote, params, check_mode, aux>>

NextRetry == Next \/ Retry

SpecRetry == Init /\ [][NextRetry]_vars

(***************************************************************************)
(* The task run in check mode, then for real.                              *)
(***************************************************************************)
\* After a check-mode run that ended, the task is run with the same
\* parameters outside check mode; what the check-mode run reported is kept.
RunForReal ==
    /\ pc = "done"
    /\ failure = ""
    /\ check_mode
    /\ predicted' = IF changed THEN "true" ELSE "false"
    /\ check_mode' = FALSE
    /\ pc' = "read"
    /\ record' = EmptyRRset
    /\ request' = NoRequest
    /\ calls' = <<>>
    /\ changed' = FALSE
    /\ result' = NilResult
    /\ UNCHANGED <<rtype, remote, params, failure, repeat, upstream, reported,
                   remote0, w2, fin, fout, fpc>>

NextCheck ==
    \/ Invoke \/ RunForReal
    \/ Read \/ ReadFails
    \/ Mutate \/ MutateFails
    \/ ReRead \/ ReReadFails

SpecCheck == Init /\ [][NextCheck]_vars

(***************************************************************************)
(* The functions of the module applied on their own: the record name, the  *)
(* comparison of content, the quoting of TXT content.                      *)
(***************************************************************************)
MaxName == 3
MaxText == 4
MaxMatchExisting == 2

NameChars == {"a", "b", "."}
Names == SeqsUpTo(NameChars, MaxName)

EndsWith(s, suffix) ==
    /\ Len(suffix) <= Len(s)
    /\ SubSeq(s, Len(s) - Len(suffix) + 1, Len(s)) = suffix

\* RStripDots, were the trailing periods kept.
RStripDots_Keep(s) == s

\* name.rstrip('.')
RStripDots(s) ==
    LET kept == {i \in 1..Len(s) : s[i] # "."}
    IN IF kept = {} THEN <<>>
       ELSE SubSeq(s, 1, CHOOSE i \in kept : \A j \in kept : j <= i)

\* sub in s, of Python strings
Contains(sub, s) ==
    \E i \in 0..(Len(s) - Len(sub)) : SubSeq(s, i + 1, i + Len(sub)) = sub

\* ensure, lines 287-295: the name the calls are given.
QualifiedName(name, zone_name) ==
    LET n == RStripDots(name)
        z == RStripDots(zone_name)
    IN IF ~Contains(z, n) THEN n \o <<".">> \o z ELSE n

_make_canonical(name) ==
    IF ~EndsWith(name, <<".">>) THEN name \o <<".">> ELSE name

\* No run of the module is going on.
run == <<remote, params, check_mode, pc, record, request, calls, changed,
         result, failure, repeat, upstream, reported, remote0, predicted, w2>>

NoRun ==
    /\ remote = EmptyRRset
    /\ remote0 = EmptyRRset
    /\ params = DefaultParams
    /\ check_mode = FALSE
    /\ pc = "off"
    /\ record = EmptyRRset
    /\ request = NoRequest
    /\ calls = <<>>
    /\ changed = FALSE
    /\ result = NilResult
    /\ failure = ""
    /\ repeat = FALSE
    /\ upstream = NoError
    /\ reported = NoReport
    /\ predicted = "none"
    /\ w2 = W2Off

\* The record name: ensure qualifies it, then get_record, create_record and
\* delete_record make it canonical.
InitName ==
    /\ rtype = "A"
    /\ NoRun
    /\ fin \in [name : Names, zone : Names]
    /\ fout = <<>>
    /\ fpc = "input"

Qualify ==
    /\ fpc = "input"
    /\ fout' = QualifiedName(fin.name, fin.zone)
    /\ fpc' = "qualified"
    /\ UNCHANGED <<rtype, run, fin>>

Canonical ==
    /\ fpc = "qualified"
    /\ fout' = _make_canonical(fout)
    /\ fpc' = "canonical"
    /\ UNCHANGED <<rtype, run, fin>>

NextName == Qualify \/ Canonical

SpecName == InitName /\ [][NextName]_vars

\* matches_existing_content on its own.  SOA content of four, three and two
\* fields; the other types compare the same strings as they are.
MatchItems ==
    {SOAStr("0", "x"), SOAStr("9", "x"), SOAStr("0", "y"), SOAStr("9", "y"),
     <<"n", " ", "h", " ", "0">>, <<"n", " ", "h">>}

InitMatch ==
    /\ rtype \in {"SOA", "A"}
    /\ NoRun
    /\ fin \in [content : MatchItems,
                 existing_content : SeqsUpTo(MatchItems, MaxMatchExisting)]
    /\ fout = <<>>
    /\ fpc = "input"

\* serial() raises IndexError on SOA content of fewer than three fields.
Match ==
    /\ fpc = "input"
    /\ fout' = IF rtype = "SOA" /\ SerialRaises(fin.content)
               THEN [raised |-> TRUE, value |-> FALSE]
               ELSE [raised |-> FALSE,
                     value |-> matches_existing_content(rtype, fin.content,
                                                        fin.existing_content)]
    /\ fpc' = "matched"
    /\ UNCHANGED <<rtype, run, fin>>

NextMatch == Match

SpecMatch == InitMatch /\ [][NextMatch]_vars

\* The quoting of TXT content on its own, applied to one item, then to what
\* it gave.
TextChars == {Q, "h", "g"}
Texts == SeqsUpTo(TextChars, MaxText)

InitTXT ==
    /\ rtype = "TXT"
    /\ NoRun
    /\ fin \in Texts
    /\ fout = <<>>
    /\ fpc = "input"

Quote ==
    /\ fpc = "input"
    /\ fout' = Sanitize(rtype, <<fin>>)[1]
    /\ fpc' = "quoted"
    /\ UNCHANGED <<rtype, run, fin>>

QuoteAgain ==
    /\ fpc = "quoted"
    /\ fout' = Sanitize(rtype, <<fout>>)[1]
    /\ fpc' = "requoted"
    /\ UNCHANGED <<rtype, run, fin>>

NextTXT == Quote \/ QuoteAgain

SpecTXT == InitTXT /\ [][NextTXT]_vars

(***************************************************************************)
(* Two runs of the module on the same recordset, state=present with        *)
(* exclusive, none of their calls failing.  The server takes one call at a *)
(* time; the calls of the two runs come in any order.                      *)
(***************************************************************************)
MaxWriterContent == 2
MaxConcExisting == 1

\* The entries the two runs ask for; the server may hold another one.
WriterItems == {Str1("1"), Str1("2")}

WriterParams ==
    {[content |-> c, hasContent |-> TRUE, ttl |-> t, disabled |-> FALSE,
      exclusive |-> TRUE, set_ptr |-> FALSE, state |-> "present"] :
        c \in SeqsUpTo(WriterItems, MaxWriterContent) \ {<<>>},
        t \in TTLs}

ConcRRsets ==
    {EmptyRRset} \cup
    {[records |-> [i \in 1..Len(c) |-> [content |-> c[i], disabled |-> FALSE]],
      ttl |-> t] :
        c \in SeqsUpTo(StoredItems("A"), MaxConcExisting) \ {<<>>}, t \in TTLs}

InitConc ==
    /\ rtype = "A"
    /\ remote \in ConcRRsets
    /\ remote0 = remote
    /\ params \in WriterParams
    /\ check_mode = FALSE
    /\ pc = "read"
    /\ record = EmptyRRset
    /\ request = NoRequest
    /\ calls = <<>>
    /\ changed = FALSE
    /\ result = NilResult
    /\ failure = ""
    /\ repeat = FALSE
    /\ upstream = NoError
    /\ reported = NoReport
    /\ predicted = "none"
    /\ w2 \in [pc : {"read"}, params : WriterParams, record : {EmptyRRset},
                request : {NoRequest}]
    /\ fin = <<>>
    /\ fout = <<>>
    /\ fpc = "off"

\* What the second run leaves alone.
others == <<rtype, params, check_mode, pc, record, request, calls, changed,
            result, failure, repeat, upstream, reported, remote0, predicted,
            fin, fout, fpc>>

\* The read and the decision of the second run.
Read2 ==
    /\ w2.pc = "read"
    /\ LET rec == get_record(remote)
       IN \E d \in Decisions(rtype, w2.params, rec) :
             w2' = CASE d.kind = "replace" ->
                          [w2 EXCEPT !.record = rec, !.pc = "mutate",
                                     !.request = create_record(rtype, d.content,
                                                     w2.params.disabled,
                                                     w2.params.ttl,
                                                     w2.params.set_ptr)]
                     [] d.kind = "delete" ->
                          [w2 EXCEPT !.record = rec, !.pc = "mutate",
                                     !.request = delete_record(rtype)]
                     [] OTHER -> [w2 EXCEPT !.record = rec, !.pc = "done"]
    /\ UNCHANGED <<remote, others>>

\* The PATCH of the second run.
Mutate2 ==
    /\ w2.pc = "mutate"
    /\ remote' = ApplyPatch(remote, w2.request)
    /\ w2' = [w2 EXCEPT !.pc = IF w2.request.changetype = "DELETE"
                               THEN "done" ELSE "reread"]
    /\ UNCHANGED others

\* The read after the PATCH of the second run.
ReRead2 ==
    /\ w2.pc = "reread"
    /\ w2' = [w2 EXCEPT !.pc = "done"]
    /\ UNCHANGED <<remote, others>>

NextConc == Read \/ Mutate \/ ReRead \/ Read2 \/ Mutate2 \/ ReRead2

SpecConc == InitConc /\ [][NextConc]_vars

(***************************************************************************)
(* C11. A failure aborts the run: once an API call of the run (the read,   *)
(* the PATCH or the read after it) has raised, the run is at its end, the  *)
(* call that raised is the last one it issued, the failure it reports      *)
(* carries the status code and the message raised, and neither changed nor *)
(* a record is reported.                                                   *)
(***************************************************************************)
C11_FailureAborts ==
    /\ [](upstream # NoError =>
            /\ pc = "done"
            /\ ApiFailed
            /\ upstream \in UpstreamErrors
            /\ reported = Report(upstream)
            /\ changed = FALSE
            /\ result = NilResult
            /\ Len(MutatingCalls) <= 1)
    /\ [][(upstream = NoError /\ upstream' # NoError)
            => calls' = Append(calls, calls'[Len(calls')])]_vars
    /\ [][(upstream # NoError /\ upstream' = upstream)
            => calls' = calls /\ remote' = remote]_vars

\* C11 witness: the read that follows a REPLACE the server applied raised
\* 422; the recordset is no longer the one read at first.
C11_Witness ==
    /\ upstream.status_code = 422
    /\ reported = Report(upstream)
    /\ CallKinds = <<"GET", "REPLACE", "GET">>
    /\ remote # record
    /\ pc = "done" /\ ~changed /\ result = NilResult

\* The recordsets a run with parameters p, none of its calls failing,
\* leaves on a server that holds zone_rrset.
Produced(zone_rrset, p) ==
    {CASE d.kind = "replace" ->
              ApplyPatch(zone_rrset, create_record(rtype, d.content, p.disabled,
                                                   p.ttl, p.set_ptr))
       [] d.kind = "delete" -> ApplyPatch(zone_rrset, delete_record(rtype))
       [] OTHER -> zone_rrset
     : d \in Decisions(rtype, p, get_record(zone_rrset))}

(***************************************************************************)
(* C12. Retrying converges: with the task run again after every failed API *)
(* call, a run that ends without failure leaves the recordset that a       *)
(* single run without failures leaves on the recordset of the start, and a *)
(* run that follows one whose effect was applied (it ended, or only its    *)
(* last read failed) reports changed = FALSE and issues no mutating call.  *)
(***************************************************************************)
C12_RetryConvergence ==
    (Succeeded /\ ~check_mode /\ params.hasContent) =>
        /\ remote \in Produced(remote0, params)
        /\ repeat => (~changed /\ MutatingCalls = <<>>)

\* The entries the run read whose content is not in the desired content.
Unlisted ==
    {record.records[i] : i \in {j \in 1..Len(record.records) :
                                  record.records[j].content \notin Range(Desired)}}

(***************************************************************************)
(* C13. Without exclusive, present and absent leave the other entries      *)
(* alone: every entry the run read whose content is not in the desired     *)
(* content is on the server when the run has ended, with the content and   *)
(* the disabled flag it had.                                               *)
(***************************************************************************)
C13_UnrelatedUntouched ==
    (Ended /\ Succeeded /\ ~params.exclusive) =>
        \A e \in Unlisted : \E i \in 1..Len(remote.records) :
            /\ remote.records[i].content = e.content
            /\ remote.records[i].disabled = e.disabled

(***************************************************************************)
(* C14. Check mode reports what would change: the run that follows a       *)
(* check-mode run, with the same parameters and on the recordset the       *)
(* check-mode run read, returns, when none of its calls fails, the changed *)
(* flag the check-mode run returned.                                       *)
(***************************************************************************)
C14_CheckModePredicts ==
    (Succeeded /\ ~check_mode /\ predicted # "none") =>
        /\ changed = (predicted = "true")
        /\ changed = (MutatingCalls # <<>>)

\* C14 witness: the check-mode run reported a change, and the run for real
\* made one.
C14_Witness ==
    /\ Succeeded /\ ~check_mode
    /\ predicted = "true"
    /\ changed
    /\ remote # remote0

\* The name ends with one period, and one only.
OneTrailingDot(name) ==
    /\ EndsWith(name, <<".">>)
    /\ ~EndsWith(name, <<".", ".">>)

(***************************************************************************)
(* C15. Zone qualification: the name given to the read and to every        *)
(* mutating call ends with the zone name followed by one period; the zone  *)
(* is added to a name that does not end with it.                           *)
(***************************************************************************)
C15_ZoneQualified ==
    fpc = "canonical" =>
        /\ EndsWith(fout, RStripDots(fin.zone) \o <<".">>)
        /\ OneTrailingDot(fout)

\* The name as the calls are given it: qualified, then made canonical.
NormalizeName(name, zone_name) == _make_canonical(QualifiedName(name, zone_name))

(***************************************************************************)
(* C18. Name canonicalization: the name the calls are given ends with one  *)
(* period and one only, whatever the number of periods the given name ends *)
(* with, and giving that name to the module again yields the same name.    *)
(***************************************************************************)
C18_CanonicalName ==
    fpc = "canonical" =>
        /\ fout = NormalizeName(fin.name, fin.zone)
        /\ OneTrailingDot(fout)
        /\ NormalizeName(fout, fin.zone) = fout

\* C18 witness: a name given with two periods at its end, in a zone it
\* belongs to, has been made canonical.
C18_Witness ==
    /\ fpc = "canonical"
    /\ EndsWith(fin.name, <<".", ".">>)
    /\ fin.zone = <<"a">>
    /\ fout = <<"a", ".">>

\* The fields of a content string without the third one, if it has one.
WithoutThird(content) ==
    LET fields == Split(content)
    IN IF Len(fields) < 3 THEN fields
       ELSE [i \in 1..(Len(fields) - 1) |->
                IF i < 3 THEN fields[i] ELSE fields[i + 1]]

(***************************************************************************)
(* C16. The SOA serial wildcard: an SOA content whose third field is 0     *)
(* matches when an existing entry has the same fields once the third field *)
(* is taken out of both; an SOA content with another serial, and content   *)
(* of any other type, matches when an existing entry is the same string.   *)
(***************************************************************************)
C16_SerialWildcard ==
    (fpc = "matched" /\ ~fout.raised) =>
        fout.value =
            IF rtype = "SOA" /\ Split(fin.content)[3] = Str1("0")
            THEN \E e \in Range(fin.existing_content) :
                    WithoutThird(e) = WithoutThird(fin.content)
            ELSE fin.content \in Range(fin.existing_content)

\* C16 witness: serial 0 was matched with the stored serial 9.
C16_Witness ==
    /\ fpc = "matched"
    /\ rtype = "SOA"
    /\ fin.content = SOAStr("0", "x")
    /\ fin.existing_content = <<SOAStr("9", "x")>>
    /\ fout = [raised |-> FALSE, value |-> TRUE]

\* The text between the quotes an item begins and ends with.
Bare(item) == ~StartsWithQuote(item) /\ ~EndsWithQuote(item)

(***************************************************************************)
(* C17. TXT content is put between one pair of double quotes: the quotes   *)
(* around the item are stripped, then one pair is added; an item without   *)
(* quotes and the same item between quotes give the same string; quoting   *)
(* what the quoting gave changes nothing.                                  *)
(***************************************************************************)
C17_TXTQuoted ==
    /\ fpc = "quoted" =>
          /\ fout = <<Q>> \o StripQuotes(fin) \o <<Q>>
          /\ Bare(fin) => Sanitize(rtype, <<(<<Q>> \o fin \o <<Q>>)>>)[1] = fout
    /\ fpc = "requoted" => fout = Sanitize(rtype, <<fin>>)[1]

\* The parameters that differ from p in disabled and set_ptr at most.
Variants(p) ==
    {[p EXCEPT !.disabled = d, !.set_ptr = sp] : d \in BOOLEAN, sp \in BOOLEAN}

\* The run that ended is the one decision d leads to.
TakenBy(d) ==
    CASE d.kind = "noop" -> ~changed /\ request = NoRequest
      [] d.kind = "replace" ->
            /\ changed
            /\ request.changetype = "REPLACE"
            /\ CallContent(request) = d.content
      [] d.kind = "delete" -> changed /\ request.changetype = "DELETE"
      [] OTHER -> FALSE

\* The content and the ttl asked for are the ones the run read, and the
\* disabled flag of an entry read is not the one asked for.
OnlyFlagDiffers ==
    /\ params.state = "present"
    /\ Len(Desired) > 0
    /\ Range(Desired) = {record.records[i].content : i \in 1..Len(record.records)}
    /\ record.ttl = params.ttl
    /\ \E i \in 1..Len(record.records) :
          record.records[i].disabled # params.disabled

(***************************************************************************)
(* C19. The decision looks at neither disabled nor set_ptr: the run that   *)
(* ended is a run of the same task with any other disabled and set_ptr on  *)
(* the record read: the same changed flag, the same kind of mutating call  *)
(* (none, REPLACE or DELETE), the same content list; outside check mode    *)
(* the call prepared is the one mutating call issued.  When content and    *)
(* ttl are the ones stored and only the disabled flag differs, the run     *)
(* reports changed = FALSE and leaves the recordset, flag included, alone. *)
(***************************************************************************)
C19_FlagsNotDecided ==
    Succeeded =>
        /\ \A q \in Variants(params) :
              \E d \in Decisions(rtype, q, record) : TakenBy(d)
        /\ ~check_mode =>
              MutatingCalls = IF request = NoRequest THEN <<>> ELSE <<request>>
        /\ OnlyFlagDiffers =>
              /\ ~changed
              /\ MutatingCalls = <<>>
              /\ remote = record

\* C19 witness: a run that asked for disabled entries read the content and
\* the ttl asked for, enabled, and left them so.
C19_Witness ==
    /\ Succeeded /\ ~check_mode
    /\ OnlyFlagDiffers
    /\ params.disabled
    /\ ~changed
    /\ remote = record
    /\ Len(remote.records) > 0 /\ ~remote.records[1].disabled

\* The content a recordset holds, and the content each of the two runs asks
\* for, as sets.
StoredSet(zone_rrset) ==
    {zone_rrset.records[i].content : i \in 1..Len(zone_rrset.records)}
D1 == Range(Sanitize(rtype, params.content))
D2 == Range(Sanitize(rtype, w2.params.content))

(***************************************************************************)
(* C20. Two exclusive present runs on one recordset, the last writer wins: *)
(* after every call the content stored is the content of the start, the    *)
(* content of the first run or the content of the second, as a whole; when *)
(* both runs have ended the content and the ttl stored are those of one of *)
(* the two runs, and the recordset is not empty.                           *)
(***************************************************************************)
C20_LastWriterWins ==
    /\ StoredSet(remote) \in {StoredSet(remote0), D1, D2}
    /\ (pc = "done" /\ w2.pc = "done") =>
          /\ \/ StoredSet(remote) = D1 /\ remote.ttl = params.ttl
             \/ StoredSet(remote) = D2 /\ remote.ttl = w2.params.ttl
          /\ StoredSet(remote) # {}

\* C20 witness: the two runs read the recordset of the start, which holds
\* an entry neither asks for; both sent their REPLACE, the second run
\* first, and the content of the first run is stored.
C20_Witness ==
    /\ pc = "done" /\ w2.pc = "done"
    /\ record = remote0 /\ w2.record = remote0
    /\ StoredSet(remote0) # {}
    /\ StoredSet(remote0) \cap (D1 \cup D2) = {}
    /\ D1 \cap D2 = {}
    /\ Len(MutatingCalls) = 1
    /\ w2.request.changetype = "REPLACE"
    /\ StoredSet(remote) = D1 /\ remote.ttl = params.ttl
    /\ params.ttl # w2.params.ttl

====
